---- MODULE Spec2Model ----
(***************************************************************************)
(* Model of the eBay product scraper of the importer                      *)
(* (app/services/ebay-scraper.server.ts): scrapeEbayProduct and its        *)
(* helpers extractItemId, createScraperError and formatEbayVariants; of    *)
(* the loader of the settings route (app/routes/app.settings.tsx); and of  *)
(* the action and the selection of the import history page.                *)
(*                                                                         *)
(* JavaScript values are records tagged by their type in field t.  A       *)
(* string is a sequence of text atoms: single characters where the code    *)
(* looks inside the string (URLs, option values, image URLs), whole        *)
(* phrases for the fixed messages the code only passes along.              *)
(***************************************************************************)
EXTENDS Integers, Sequences, FiniteSets, TLC

VARIABLES
    env,          \* process.env.RAPIDAPI_KEY
    pc,           \* position of the invocation: "idle", "awaiting", "done"
    ebayUrl,      \* argument ebayUrl of the current invocation
    apiKey,       \* argument apiKey of the current invocation
    itemId,       \* local itemId (line 99)
    rapidApiKey,  \* local rapidApiKey (line 109)
    requests,     \* outbound HTTP requests issued by the current invocation
    response,     \* local response (line 123), the envelope is response.data
    caught,       \* the error bound by the catch clause (line 246)
    steps,        \* the pipeline steps the current invocation has run, in order
    outcome,      \* how the invocation completed: a returned value or an escaped exception
    fmtOptions,   \* argument options of a direct call of formatEbayVariants
    fmtResult,    \* what that call returned or threw
    inv,          \* the locals of each of several invocations in flight together
    appSettings,  \* the rows of the appSettings table, in creation order
    loaders,      \* the locals and the position of each settings loader in flight
    importedProduct,  \* the rows of the importedProduct table
    submitted,    \* the last request the history action handled, and its result
    products,     \* the products the history loader gave the page
    searchTerm,   \* history page state searchTerm (line 92)
    filterStatus, \* history page state filterStatus (line 93)
    selectedProducts  \* history page state selectedProducts (line 95)

\* the state of the routes
routeVars == <<appSettings, loaders, importedProduct, submitted, products,
               searchTerm, filterStatus, selectedProducts>>

\* the state of the scraper
scraperVars == <<env, pc, ebayUrl, apiKey, itemId, rapidApiKey, requests,
                 response, caught, steps, outcome, fmtOptions, fmtResult, inv>>

vars == <<env, pc, ebayUrl, apiKey, itemId, rapidApiKey, requests, response,
          caught, steps, outcome, fmtOptions, fmtResult, inv, routeVars>>

----------------------------------------------------------------------------
(* JavaScript values *)

Undefined == [t |-> "undefined"]
Null == [t |-> "null"]
NaN == [t |-> "NaN"]
Num(n) == [t |-> "number", v |-> n]
Str(s) == [t |-> "string", s |-> s]
Bool(b) == [t |-> "boolean", b |-> b]
Arr(a) == [t |-> "array", a |-> a]

\* ToBoolean: the falsy values are undefined, null, NaN, 0, "" and false
Truthy(x) ==
    CASE x.t = "undefined" -> FALSE
      [] x.t = "null" -> FALSE
      [] x.t = "NaN" -> FALSE
      [] x.t = "number" -> x.v # 0
      [] x.t = "string" -> Len(x.s) > 0
      [] x.t = "boolean" -> x.b
      [] OTHER -> TRUE

\* a || b
Or(a, b) == IF Truthy(a) THEN a ELSE b

----------------------------------------------------------------------------
(* Strings, character by character *)

UpperToLower ==
    [A |-> "a", B |-> "b", C |-> "c", E |-> "e", F |-> "f", I |-> "i",
     K |-> "k", M |-> "m", O |-> "o", S |-> "s", T |-> "t", U |-> "u",
     Y |-> "y"]

Digits == {"0", "1", "2", "3", "4", "5", "6", "7", "8", "9"}

Whitespace == {" "}

toLowerCaseChar(c) == IF c \in DOMAIN UpperToLower THEN UpperToLower[c] ELSE c

\* String.prototype.toLowerCase
toLowerCase(s) == [i \in 1..Len(s) |-> toLowerCaseChar(s[i])]

\* String.prototype.includes
includes(s, sub) ==
    \E i \in 1..(Len(s) - Len(sub) + 1) : SubSeq(s, i, i + Len(sub) - 1) = sub

\* String.prototype.startsWith
startsWith(s, prefix) ==
    Len(s) >= Len(prefix) /\ SubSeq(s, 1, Len(prefix)) = prefix

\* String.prototype.trim
trim(s) ==
    LET keep == {i \in 1..Len(s) : s[i] \notin Whitespace}
    IN  IF keep = {} THEN <<>>
        ELSE LET first == CHOOSE i \in keep : \A j \in keep : i <= j
                 last == CHOOSE i \in keep : \A j \in keep : j <= i
             IN  SubSeq(s, first, last)

RECURSIVE Concat(_)
\* the concatenation of a sequence of sequences
Concat(ss) == IF ss = <<>> THEN <<>> ELSE Head(ss) \o Concat(Tail(ss))

RECURSIVE SeqsUpTo(_, _)
\* the sequences over S of length at most n
SeqsUpTo(S, n) ==
    IF n = 0 THEN {<<>>}
    ELSE LET shorter == SeqsUpTo(S, n - 1)
         IN  shorter \cup {Append(q, x) : q \in shorter, x \in S}

----------------------------------------------------------------------------
(* extractItemId, lines 349-353: the first match of /\/itm\/(\d+)/i *)

ItmSegment == <<"/", "i", "t", "m", "/">>

MatchesAt(url, i) ==
    /\ i + Len(ItmSegment) <= Len(url)
    /\ toLowerCase(SubSeq(url, i, i + Len(ItmSegment) - 1)) = ItmSegment
    /\ url[i + Len(ItmSegment)] \in Digits

extractItemId(url) ==
    LET starts == {i \in 1..Len(url) : MatchesAt(url, i)}
    IN  IF starts = {} THEN Null
        ELSE LET i == CHOOSE k \in starts : \A j \in starts : k <= j
                 from == i + Len(ItmSegment)
                 \* \d+ is greedy: the capture runs to the last digit of the run
                 to == CHOOSE k \in from..Len(url) :
                           /\ \A j \in from..k : url[j] \in Digits
                           /\ k = Len(url) \/ url[k + 1] \notin Digits
             IN  Str(SubSeq(url, from, to))

----------------------------------------------------------------------------
(* Errors and completions *)

\* createScraperError, lines 358-365: an Error carrying a code
createScraperError(message, code) ==
    [isError |-> TRUE, isAxiosError |-> FALSE, message |-> Str(<<message>>),
     code |-> code, responseMessage |-> Undefined]

\* the TypeError the runtime throws on a property read or a method call
\* the value does not support
TypeError(message) ==
    [isError |-> TRUE, isAxiosError |-> FALSE, message |-> Str(<<message>>),
     code |-> "NONE", responseMessage |-> Undefined]

\* the error axios.post rejects with: responseMessage is
\* error.response?.data?.message
AxiosError(message, responseMessage) ==
    [isError |-> TRUE, isAxiosError |-> TRUE, message |-> Str(<<message>>),
     code |-> "NONE", responseMessage |-> responseMessage]

NoError == [isError |-> FALSE, isAxiosError |-> FALSE, message |-> Undefined,
            code |-> "NONE", responseMessage |-> Undefined]

\* a step of the try block either goes on with a value or throws
Normal(v) == [kind |-> "normal", value |-> v]
Throw(e) == [kind |-> "throw", error |-> e]

MsgInvalidUrl == "Invalid eBay URL"
MsgNoItemId == "Could not extract Item ID from URL"
MsgKeyMissing == "RapidAPI key is required. Please add it in Settings or set RAPIDAPI_KEY environment variable."
MsgFetchFailed == "Failed to fetch product data from eBay. Please check if the URL is valid and the product is available."
MsgNotFound == "Product not found. This could mean: 1) The item doesn't exist or is no longer available on eBay, 2) Your RapidAPI key has reached its request limit. Please check your RapidAPI dashboard at https://rapidapi.com/hub and verify your subscription status."
MsgIncomplete == "Incomplete product data received from eBay. The product may not be available for sale. Please try a different product URL."
MsgAxiosPrefix == "Failed to fetch eBay product: "
MsgUnknown == "Failed to fetch eBay product data"

\* the returned object: an absent property reads as undefined
Success(data) == [success |-> TRUE, data |-> data, error |-> Undefined]
Failure(error) == [success |-> FALSE, data |-> Undefined, error |-> error]

\* a faulty catch clause: it handles the errors it knows and rethrows the
\* others
CatchRethrows(error) ==
    IF error.isAxiosError
    THEN Normal(Failure(Str(<<MsgAxiosPrefix>> \o
                            Or(error.responseMessage, error.message).s)))
    ELSE IF error.code # "NONE" THEN Normal(Failure(error.message))
    ELSE Throw(error)

\* a faulty report: a transport failure is reported with the message of the
\* status check
AxiosFailureTyped(error) == Failure(Str(<<MsgFetchFailed>>))

\* lines 249-255: the failure made from an error of axios, its message the
\* one of the response body when there is one, else the error's own
AxiosFailure(error) ==
    Failure(Str(<<MsgAxiosPrefix>> \o
                Or(error.responseMessage, error.message).s))

\* what the catch clause does with the error it catches, lines 246-264
Catch(error) ==
    IF error.isAxiosError
    THEN Normal(AxiosFailure(error))
    ELSE Normal(Failure(IF error.isError THEN error.message
                        ELSE Str(<<MsgUnknown>>)))

----------------------------------------------------------------------------
(* scrapeEbayProduct up to the request, lines 93-116 *)

EbayMarker == <<"e", "b", "a", "y", ".">>

\* a faulty validation: the key is not checked before the request
ValidateSkipsKey(url, key, envKey) ==
    IF ~includes(url, EbayMarker)
    THEN [steps |-> <<"checkDomain">>,
          end |-> Throw(createScraperError(MsgInvalidUrl, "INVALID_URL"))]
    ELSE IF ~Truthy(extractItemId(url))
    THEN [steps |-> <<"checkDomain", "extractItemId">>,
          end |-> Throw(createScraperError(MsgNoItemId, "INVALID_URL"))]
    ELSE [steps |-> <<"checkDomain", "extractItemId", "checkKey">>,
          end |-> Normal([itemId |-> extractItemId(url),
                          rapidApiKey |-> Or(key, envKey)])]

\* a faulty validation: the domain marker is not checked
ValidateSkipsDomain(url, key, envKey) ==
    IF ~Truthy(extractItemId(url))
    THEN [steps |-> <<"checkDomain", "extractItemId">>,
          end |-> Throw(createScraperError(MsgNoItemId, "INVALID_URL"))]
    ELSE IF ~Truthy(Or(key, envKey))
    THEN [steps |-> <<"checkDomain", "extractItemId", "checkKey">>,
          end |-> Throw(createScraperError(MsgKeyMissing, "API_KEY_MISSING"))]
    ELSE [steps |-> <<"checkDomain", "extractItemId", "checkKey">>,
          end |-> Normal([itemId |-> extractItemId(url),
                          rapidApiKey |-> Or(key, envKey)])]

\* the steps run and how they ended: the item id and the key to send, or
\* the error thrown
Validate(url, key, envKey) ==
    IF ~includes(url, EbayMarker)
    THEN [steps |-> <<"checkDomain">>,
          end |-> Throw(createScraperError(MsgInvalidUrl, "INVALID_URL"))]
    ELSE IF ~Truthy(extractItemId(url))
    THEN [steps |-> <<"checkDomain", "extractItemId">>,
          end |-> Throw(createScraperError(MsgNoItemId, "INVALID_URL"))]
    ELSE IF ~Truthy(Or(key, envKey))
    THEN [steps |-> <<"checkDomain", "extractItemId", "checkKey">>,
          end |-> Throw(createScraperError(MsgKeyMissing, "API_KEY_MISSING"))]
    ELSE [steps |-> <<"checkDomain", "extractItemId", "checkKey">>,
          end |-> Normal([itemId |-> extractItemId(url),
                          rapidApiKey |-> Or(key, envKey)])]

----------------------------------------------------------------------------
(* formatEbayVariants, lines 271-343 *)

OutOfStock == <<"o", "u", "t", " ", "o", "f", " ", "s", "t", "o", "c", "k">>

MsgEntriesOfNull == "Cannot convert undefined or null to object"
MsgTrimNotFunction == "v.trim is not a function"
MsgForEachNotFunction == "options.forEach is not a function"

\* a map from option names to values, as a function on its keys;
\* { ...m, [k]: v }
EmptyMap == [k \in {} |-> <<>>]
Put(m, k, v) == [x \in (DOMAIN m) \cup {k} |-> IF x = k THEN v ELSE m[x]]

\* the test of line 287
HasValuesList(optionData) ==
    /\ optionData.t = "object"
    /\ optionData.values.t = "array"

\* a faulty filter: the value is compared without being lowercased
AvailableValuesCaseSensitive(values) ==
    SelectSeq([i \in 1..Len(values) |-> trim(values[i].s)],
              LAMBDA v : ~includes(v, OutOfStock))

\* lines 289-291: trim every value, drop the ones saying "out of stock"
AvailableValues(values) ==
    SelectSeq([i \in 1..Len(values) |-> trim(values[i].s)],
              LAMBDA v : ~includes(toLowerCase(v), OutOfStock))

\* a faulty test: an option is kept whatever is left of its values
SurvivesAlways(availableValues) == TRUE

\* line 293: an option is kept when at least one value is left
Survives(availableValues) == Len(availableValues) > 0

RECURSIVE parseEntries(_, _)
\* the inner forEach, lines 286-305, over the entries of one descriptor:
\* acc is productOptions (allOptionValues holds the same entries)
parseEntries(entries, acc) ==
    IF entries = <<>> THEN Normal(acc)
    ELSE LET optionName == Head(entries).name
             optionData == Head(entries).data
         IN  IF ~HasValuesList(optionData)
             THEN parseEntries(Tail(entries), acc)
             ELSE IF \E i \in 1..Len(optionData.values.a) :
                         optionData.values.a[i].t # "string"
             THEN Throw(TypeError(MsgTrimNotFunction))
             ELSE LET availableValues == AvailableValues(optionData.values.a)
                  IN  parseEntries(Tail(entries),
                          IF Survives(availableValues)
                          THEN Append(acc, [name |-> optionName,
                                            values |-> availableValues])
                          ELSE acc)

RECURSIVE parseOptions(_, _)
\* the outer forEach, lines 284-306
parseOptions(objs, acc) ==
    IF objs = <<>> THEN Normal(acc)
    ELSE IF Head(objs).t # "object" THEN Throw(TypeError(MsgEntriesOfNull))
    ELSE LET r == parseEntries(Head(objs).entries, acc)
         IN  IF r.kind = "throw" THEN r
             ELSE parseOptions(Tail(objs), r.value)

RECURSIVE generateCombinationsStopsEarly(_, _, _)
\* a faulty expansion: the recursion ends one option early
generateCombinationsStopsEarly(allOptionValues, optionIndex, currentOptions) ==
    IF optionIndex >= Len(allOptionValues)
    THEN <<[itemId |-> Str(<<>>), options |-> currentOptions,
            available |-> TRUE]>>
    ELSE LET currentOption == allOptionValues[optionIndex]
         IN  Concat([k \in 1..Len(currentOption.values) |->
                 generateCombinationsStopsEarly(allOptionValues,
                     optionIndex + 1,
                     Put(currentOptions, currentOption.name,
                         currentOption.values[k]))])

RECURSIVE generateCombinationsBackwards(_, _, _)
\* a faulty expansion: the values of an option are taken last to first
generateCombinationsBackwards(allOptionValues, optionIndex, currentOptions) ==
    IF optionIndex > Len(allOptionValues)
    THEN <<[itemId |-> Str(<<>>), options |-> currentOptions,
            available |-> TRUE]>>
    ELSE LET currentOption == allOptionValues[optionIndex]
             n == Len(currentOption.values)
         IN  Concat([k \in 1..n |->
                 generateCombinationsBackwards(allOptionValues,
                     optionIndex + 1,
                     Put(currentOptions, currentOption.name,
                         currentOption.values[n + 1 - k]))])

RECURSIVE generateCombinations(_, _, _)
\* lines 316-334: the variants pushed, in the order they are pushed
\* (optionIndex counts from 1 here)
generateCombinations(allOptionValues, optionIndex, currentOptions) ==
    IF optionIndex > Len(allOptionValues)
    THEN <<[itemId |-> Str(<<>>), options |-> currentOptions,
            available |-> TRUE]>>
    ELSE LET currentOption == allOptionValues[optionIndex]
         IN  Concat([k \in 1..Len(currentOption.values) |->
                 generateCombinations(allOptionValues, optionIndex + 1,
                     Put(currentOptions, currentOption.name,
                         currentOption.values[k]))])

NoVariants == [options |-> <<>>, variants |-> <<>>]

formatEbayVariants(options) ==
    IF ~Truthy(options) \/ (options.t = "array" /\ Len(options.a) = 0)
    THEN Normal(NoVariants)
    ELSE IF options.t # "array"
    THEN Throw(TypeError(MsgForEachNotFunction))
    ELSE LET parsed == parseOptions(options.a, <<>>)
         IN  IF parsed.kind = "throw" THEN parsed
             ELSE IF Len(parsed.value) = 0 THEN Normal(NoVariants)
             ELSE Normal([options |-> parsed.value,
                          variants |-> generateCombinations(parsed.value, 1,
                                                            EmptyMap)])

----------------------------------------------------------------------------
(* The response body and its normalization, lines 169-245.  Of the fields  *)
(* of ScrapedProduct the model keeps itemId, title, price, currency,       *)
(* images, options, variants, ebayUrl and availability.                    *)

\* a body none of whose keys is present: Object.keys(apiData).length === 0
EmptyBody ==
    [t |-> "object", title |-> Undefined, price |-> Undefined,
     url |-> Undefined, mainImage |-> Undefined, images |-> Undefined,
     options |-> Undefined, availableQuantity |-> Undefined,
     condition |-> Undefined]

BodyKeys == DOMAIN EmptyBody \ {"t"}

ObjectKeys(obj) == {k \in BodyKeys : obj[k] # Undefined}

PriceObject(value, currency) ==
    [t |-> "object", value |-> value, currency |-> currency]

\* apiData.price?.value
PriceValue(apiData) ==
    IF apiData.price.t = "object" THEN apiData.price.value ELSE Undefined

HttpPrefix == <<"h", "t", "t", "p">>
ThumbMarker == <<"/", "s", "-", "l">>
JpgMarker == <<".", "j", "p", "g">>
HighResolution == <<"/", "s", "-", "l", "1", "6", "0", "0", ".">>

MsgReadValue == "Cannot read properties of undefined (reading 'value')"
MsgFilterNotFunction == "apiData.images.filter is not a function"
MsgStartsWithNotFunction == "img.startsWith is not a function"

\* the end of the match of /\/s-l\d+\./ that starts at i, or 0
ThumbMatchEnd(img, i) ==
    IF /\ i + Len(ThumbMarker) <= Len(img)
       /\ SubSeq(img, i, i + Len(ThumbMarker) - 1) = ThumbMarker
       /\ img[i + Len(ThumbMarker)] \in Digits
    THEN LET from == i + Len(ThumbMarker)
             to == CHOOSE k \in from..Len(img) :
                       /\ \A j \in from..k : img[j] \in Digits
                       /\ k = Len(img) \/ img[k + 1] \notin Digits
         IN  IF to < Len(img) /\ img[to + 1] = "." THEN to + 1 ELSE 0
    ELSE 0

\* img.replace(/\/s-l\d+\./, "/s-l1600."): the first match is replaced
ReplaceThumb(img) ==
    LET starts == {i \in 1..Len(img) : ThumbMatchEnd(img, i) > 0}
    IN  IF starts = {} THEN img
        ELSE LET i == CHOOSE k \in starts : \A j \in starts : k <= j
             IN  SubSeq(img, 1, i - 1) \o HighResolution
                 \o SubSeq(img, ThumbMatchEnd(img, i) + 1, Len(img))

\* lines 176-182
ToHighResolution(img) ==
    IF includes(img, ThumbMarker) /\ includes(img, JpgMarker)
    THEN ReplaceThumb(img)
    ELSE img

\* lines 173-185
formatImages(apiData) ==
    IF Truthy(apiData.images)
    THEN IF apiData.images.t # "array"
         THEN Throw(TypeError(MsgFilterNotFunction))
         ELSE IF \E i \in 1..Len(apiData.images.a) :
                     /\ Truthy(apiData.images.a[i])
                     /\ apiData.images.a[i].t # "string"
         THEN Throw(TypeError(MsgStartsWithNotFunction))
         ELSE LET kept == SelectSeq(apiData.images.a,
                              LAMBDA img : /\ Truthy(img)
                                           /\ startsWith(img.s, HttpPrefix))
              IN  Normal([i \in 1..Len(kept) |->
                             Str(ToHighResolution(kept[i].s))])
    ELSE IF Truthy(apiData.mainImage) THEN Normal(<<apiData.mainImage>>)
    ELSE Normal(<<>>)

\* line 170
BasePrice(apiData) == Or(apiData.price.value, Num(0))

\* lines 237-239
Availability(apiData) ==
    IF Truthy(apiData.availableQuantity)
    THEN Str(<<ToString(apiData.availableQuantity.v), " available">>)
    ELSE Or(apiData.condition, Str(<<"Available">>))

\* the price property of a variant formatEbayVariants built: it has none
VariantPrice(variant) == Undefined

\* a faulty override: the variant keeps the price it came with
WithBasePriceKeepsOwn(variant, basePrice) ==
    [itemId |-> variant.itemId,
     options |-> variant.options,
     available |-> variant.available,
     price |-> VariantPrice(variant)]

\* lines 223-226: the variant spread, its price overridden when it has none
WithBasePrice(variant, basePrice) ==
    [itemId |-> variant.itemId,
     options |-> variant.options,
     available |-> variant.available,
     price |-> Or(VariantPrice(variant), basePrice)]

\* lines 169-245: the product record, or the error thrown on the way
Normalize(apiData, id, url) ==
    LET images == formatImages(apiData)
        variantsData == formatEbayVariants(Or(apiData.options, Arr(<<>>)))
    IN  IF apiData.price.t # "object" THEN Throw(TypeError(MsgReadValue))
        ELSE IF images.kind = "throw" THEN images
        ELSE IF variantsData.kind = "throw" THEN variantsData
        ELSE Normal(
            [itemId |-> id,
             title |-> apiData.title,
             price |-> BasePrice(apiData),
             currency |-> Or(apiData.price.currency, Str(<<"USD">>)),
             images |-> images.value,
             options |-> variantsData.value.options,
             variants |->
                 [i \in 1..Len(variantsData.value.variants) |->
                     WithBasePrice(variantsData.value.variants[i],
                                   BasePrice(apiData))],
             ebayUrl |-> Or(apiData.url, Str(url)),
             availability |-> Availability(apiData)])

----------------------------------------------------------------------------
(* scrapeEbayProduct after the response, lines 138-167 *)

MsgReadStatus == "Cannot read properties of undefined (reading 'original_status')"

HTTP_OK == 200

\* response.data.original_status, response.data.pc_status, response.data.body
Field(data, name) == IF data.t = "object" THEN data[name] ELSE Undefined

\* a faulty status check: && in place of ||
StatusRejectedIfBoth(data) ==
    /\ Field(data, "original_status") # Num(HTTP_OK)
    /\ Field(data, "pc_status") # Num(HTTP_OK)

\* line 141
StatusRejected(data) ==
    \/ Field(data, "original_status") # Num(HTTP_OK)
    \/ Field(data, "pc_status") # Num(HTTP_OK)

\* line 151
BodyEmpty(apiData) == ~Truthy(apiData) \/ ObjectKeys(apiData) = {}

\* a faulty essential-fields check: the price value is not looked at
EssentialMissingTitleOnly(apiData) == ~Truthy(apiData.title)

\* lines 159-162
EssentialMissing(apiData) ==
    ~Truthy(apiData.title) \/ ~Truthy(PriceValue(apiData))

\* a faulty order of the checks: the empty body before the status codes
ProcessEmptyFirst(resp, id, url) ==
    IF resp.data.t \in {"undefined", "null"}
    THEN [steps |-> <<"checkStatus">>,
          end |-> Throw(TypeError(MsgReadStatus))]
    ELSE LET apiData == Field(resp.data, "body")
         IN  IF BodyEmpty(apiData)
             THEN [steps |-> <<"checkEmpty">>,
                   end |-> Throw(createScraperError(MsgNotFound, "API_ERROR"))]
             ELSE IF StatusRejected(resp.data)
             THEN [steps |-> <<"checkEmpty", "checkStatus">>,
                   end |-> Throw(createScraperError(MsgFetchFailed, "API_ERROR"))]
             ELSE IF EssentialMissing(apiData)
             THEN [steps |-> <<"checkEmpty", "checkStatus", "checkEssential">>,
                   end |-> Throw(createScraperError(MsgIncomplete, "API_ERROR"))]
             ELSE [steps |-> <<"checkEmpty", "checkStatus", "checkEssential",
                               "normalize">>,
                   end |-> Normalize(apiData, id, url)]

\* the checks of the response in the order the code runs them, then the
\* normalization: the steps run and how they ended
Process(resp, id, url) ==
    IF resp.data.t \in {"undefined", "null"}
    THEN [steps |-> <<"checkStatus">>,
          end |-> Throw(TypeError(MsgReadStatus))]
    ELSE IF StatusRejected(resp.data)
    THEN [steps |-> <<"checkStatus">>,
          end |-> Throw(createScraperError(MsgFetchFailed, "API_ERROR"))]
    ELSE LET apiData == Field(resp.data, "body")
         IN  IF BodyEmpty(apiData)
             THEN [steps |-> <<"checkStatus", "checkEmpty">>,
                   end |-> Throw(createScraperError(MsgNotFound, "API_ERROR"))]
             ELSE IF EssentialMissing(apiData)
             THEN [steps |-> <<"checkStatus", "checkEmpty", "checkEssential">>,
                   end |-> Throw(createScraperError(MsgIncomplete, "API_ERROR"))]
             ELSE [steps |-> <<"checkStatus", "checkEmpty", "checkEssential",
                               "normalize">>,
                   end |-> Normalize(apiData, id, url)]

----------------------------------------------------------------------------
(* The invocation as a state machine: it runs to the await of line 123,   *)
(* and from the settlement of the request to its return.                  *)

NoResponse == [data |-> [t |-> "none"]]
NotCompleted == [kind |-> "none"]
Returned(v) == [kind |-> "return", value |-> v]

\* how the function completes when its try block ends with completion c
Complete(c) ==
    IF c.kind = "throw"
    THEN LET handled == Catch(c.error)
         IN  IF handled.kind = "throw" THEN handled
             ELSE Returned(handled.value)
    ELSE Returned(Success(c.value))

CaughtOf(c) == IF c.kind = "throw" THEN c.error ELSE NoError

----------------------------------------------------------------------------
(* Inputs *)

MaxUrlChunks == 3
MaxDescriptors == 2

\* URLs are built from the pieces the validation looks for, and near misses
UrlChunks ==
    {<<"e", "b", "a", "y", ".">>, <<"E", "B", "A", "Y", ".">>,
     <<"/", "i", "t", "m", "/">>, <<"/", "I", "t", "m", "/">>,
     <<"/", "i", "t", "m">>, <<"1", "2">>}

Urls == {Concat(q) : q \in SeqsUpTo(UrlChunks, MaxUrlChunks)}

\* the apiKey argument (null by default) and the environment's key
ApiKeys == {Null, Str(<<>>), Str(<<"k">>)}
EnvKeys == {Undefined, Str(<<"e">>)}

StatusValues == {Num(HTTP_OK), Num(404), Undefined, Str(<<"2", "0", "0">>)}
ProcessingStatusValues == {Num(HTTP_OK), Num(500)}

Envelope(original, processing, body) ==
    [t |-> "object", original_status |-> original, pc_status |-> processing,
     body |-> body]

Titles == {Undefined, Str(<<>>), Str(<<"T">>)}
PriceValues == {Undefined, Num(0), Num(-5), Num(10), NaN, Str(<<"1", "5">>)}
Prices ==
    {Undefined, Null}
    \cup {PriceObject(v, c) : v \in PriceValues,
                              c \in {Undefined, Str(<<"EUR">>)}}

\* a body that passes the three checks
GoodBody ==
    [EmptyBody EXCEPT !.title = Str(<<"T">>),
                      !.price = PriceObject(Num(10), Str(<<"EUR">>))]

\* option values: plain, padded, and saying out of stock
ValS == <<"S">>
ValM == <<"M">>
ValPaddedS == <<" ", "S", " ">>
ValOut == <<"O", "u", "t", " ", "o", "f", " ", "S", "t", "o", "c", "k">>
ValOutNote == <<"M", " ", "(", "o", "u", "t", " ", "o", "f", " ", "s", "t",
                "o", "c", "k", ")", " ">>

ValueLists ==
    {<<>>, <<Str(ValS)>>, <<Str(ValS), Str(ValM)>>, <<Str(ValPaddedS), Str(ValS)>>,
     <<Str(ValOut)>>, <<Str(ValM), Str(ValOutNote), Str(ValS)>>,
     <<Str(ValS), Num(7)>>}

OptionDatas ==
    {Null, [t |-> "object", values |-> Undefined],
     [t |-> "object", values |-> Str(ValS)]}
    \cup {[t |-> "object", values |-> Arr(l)] : l \in ValueLists}

OptionNames == {"Color", "Size"}

\* a descriptor is an object with its entries in Object.entries order,
\* or null
Descriptor(entries) == [t |-> "object", entries |-> entries]

Descriptors ==
    {Null}
    \cup {Descriptor(<<[name |-> n, data |-> d]>>) :
              n \in OptionNames, d \in OptionDatas}
    \cup {Descriptor(<<[name |-> "Color", data |-> d],
                       [name |-> "Size",
                        data |-> [t |-> "object",
                                  values |-> Arr(<<Str(ValS), Str(ValM)>>)]]>>) :
              d \in OptionDatas}

OptionInputs ==
    {Undefined, Null, Str(ValS)}
    \cup {Arr(q) : q \in SeqsUpTo(Descriptors, MaxDescriptors)}

\* the options of the bodies scrapeEbayProduct is run on
BodyOptions ==
    {Str(ValS), Arr(<<>>), Arr(<<Null>>)}
    \cup {Arr(<<Descriptor(<<[name |-> "Color",
                             data |-> [t |-> "object", values |-> Arr(l)]]>>),
                Descriptor(<<[name |-> n,
                             data |-> [t |-> "object",
                                       values |-> Arr(<<Str(ValS), Str(ValM)>>)]]>>)>>) :
              l \in ValueLists, n \in OptionNames}

ImgThumb == <<"h", "t", "t", "p", "s", ":", "/", "/", "i", "/", "s", "-", "l",
              "5", "0", "0", ".", "j", "p", "g">>
ImgPlain == <<"h", "t", "t", "p", ":", "/", "/", "x", "/", "a", ".", "p", "n",
              "g">>
ImgRelative == <<"/", "a", ".", "j", "p", "g">>
ImgNoScheme == <<"h", "t", "t", "p", "x">>

ImageLists ==
    {Arr(<<>>), Arr(<<Str(ImgThumb)>>), Arr(<<Str(ImgRelative), Str(ImgPlain)>>),
     Arr(<<Null, Str(ImgNoScheme)>>), Arr(<<Num(1)>>), Str(ImgPlain)}

MainImages == {Undefined, Str(ImgPlain), Str(ImgRelative)}

Bodies ==
    {Undefined, Null}
    \cup {[EmptyBody EXCEPT !.title = ti, !.price = p] :
              ti \in Titles, p \in Prices}
    \cup {[GoodBody EXCEPT !.options = o] : o \in BodyOptions}
    \cup {[GoodBody EXCEPT !.images = i, !.mainImage = m] :
              i \in ImageLists \cup {Undefined}, m \in MainImages}
    \cup {[GoodBody EXCEPT !.availableQuantity = q, !.condition = c,
                           !.url = u] :
              q \in {Undefined, Num(0), Num(3)},
              c \in {Undefined, Str(<<>>), Str(<<"New">>)},
              u \in {Undefined, Str(<<"u">>)}}

\* the bodies sent with every pair of statuses
StatusBodies ==
    {Undefined, EmptyBody, [EmptyBody EXCEPT !.title = Str(<<"T">>)],
     [EmptyBody EXCEPT !.condition = Str(<<"New">>)], GoodBody}

Responses ==
    {[data |-> d] : d \in {Undefined, Null, Str(<<"<html>">>)}}
    \cup {[data |-> Envelope(Num(HTTP_OK), Num(HTTP_OK), b)] : b \in Bodies}
    \cup {[data |-> Envelope(o, p, b)] :
              o \in StatusValues, p \in ProcessingStatusValues,
              b \in StatusBodies}

\* what axios.post rejects with: a timeout, a connection error, a non-2xx
\* status, with or without a message in the response data
TransportErrors ==
    {AxiosError(m, r) :
        m \in {"timeout of 30000ms exceeded", "Network Error",
               "Request failed with status code 429"},
        r \in {Undefined, Str(<<>>), Str(<<"quota exceeded">>)}}

\* no route has been requested
RoutesIdle ==
    /\ appSettings = <<>>
    /\ loaders = <<>>
    /\ importedProduct = {}
    /\ submitted = Null
    /\ products = <<>>
    /\ searchTerm = <<>>
    /\ filterStatus = "ALL"
    /\ selectedProducts = <<>>

\* the invocations in flight together
MaxInvocations == 2
Invocations == 1..MaxInvocations

\* the locals of an invocation that has not been called
IdleInvocation ==
    [pc |-> "idle", ebayUrl |-> Undefined, apiKey |-> Undefined,
     itemId |-> Undefined, rapidApiKey |-> Undefined, requests |-> 0,
     response |-> NoResponse, caught |-> NoError, steps |-> <<>>,
     outcome |-> NotCompleted]

\* what the concurrent invocations are called with and answered
UrlA == EbayMarker \o ItmSegment \o <<"1", "2">>
UrlB == EbayMarker \o ItmSegment \o <<"7">>
UrlNoMarker == ItmSegment \o <<"1", "2">>
ConcurrentUrls == {UrlA, UrlB, UrlNoMarker}
ConcurrentKeys == {Null, Str(<<"k">>)}
ConcurrentResponses ==
    {[data |-> Undefined],
     [data |-> Envelope(Num(404), Num(HTTP_OK), GoodBody)],
     [data |-> Envelope(Num(HTTP_OK), Num(HTTP_OK), GoodBody)],
     [data |-> Envelope(Num(HTTP_OK), Num(HTTP_OK),
                        [GoodBody EXCEPT !.options =
                            Arr(<<Descriptor(<<[name |-> "Color",
                                  data |-> [t |-> "object",
                                            values |-> Arr(<<Str(ValS), Str(ValM)>>)]]>>)>>)])]}
ConcurrentErrors == {AxiosError("Network Error", Undefined)}

----------------------------------------------------------------------------
(* Actions *)

Init ==
    /\ env \in EnvKeys
    /\ pc = "idle"
    /\ ebayUrl = Undefined
    /\ apiKey = Undefined
    /\ itemId = Undefined
    /\ rapidApiKey = Undefined
    /\ requests = 0
    /\ response = NoResponse
    /\ caught = NoError
    /\ steps = <<>>
    /\ outcome = NotCompleted
    /\ fmtOptions = Undefined
    /\ fmtResult = NotCompleted
    /\ inv = [i \in Invocations |-> IdleInvocation]
    /\ RoutesIdle

\* scrapeEbayProduct(url, key) is called and runs to its first await, or to
\* its return when the validation throws: lines 88-136 and 246-264
Invoke(url, key) ==
    /\ pc = "idle"
    /\ LET v == Validate(url, key, env)
       IN  /\ ebayUrl' = Str(url)
           /\ apiKey' = key
           /\ response' = NoResponse
           /\ caught' = CaughtOf(v.end)
           /\ IF v.end.kind = "throw"
              THEN /\ steps' = v.steps
                   /\ itemId' = IF Len(v.steps) > 1 THEN extractItemId(url)
                                ELSE Undefined
                   /\ rapidApiKey' = IF Len(v.steps) > 2 THEN Or(key, env)
                                     ELSE Undefined
                   /\ requests' = 0
                   /\ outcome' = Complete(v.end)
                   /\ pc' = "done"
              ELSE /\ steps' = Append(v.steps, "post")
                   /\ itemId' = v.end.value.itemId
                   /\ rapidApiKey' = v.end.value.rapidApiKey
                   /\ requests' = 1
                   /\ outcome' = NotCompleted
                   /\ pc' = "awaiting"
    /\ UNCHANGED <<env, fmtOptions, fmtResult, inv, routeVars>>

\* the request is answered and the invocation runs to its return:
\* lines 138-245 and 246-264
Respond(resp) ==
    /\ pc = "awaiting"
    /\ LET p == Process(resp, itemId, ebayUrl.s)
       IN  /\ response' = resp
           /\ steps' = steps \o p.steps
           /\ caught' = CaughtOf(p.end)
           /\ outcome' = Complete(p.end)
    /\ pc' = "done"
    /\ UNCHANGED <<env, ebayUrl, apiKey, itemId, rapidApiKey, requests,
                   fmtOptions, fmtResult, inv, routeVars>>

\* a faulty handling of a transport failure: the request is sent again
RequestFailsRetries(err) ==
    /\ pc = "awaiting"
    /\ IF requests < 2
       THEN /\ requests' = requests + 1
            /\ steps' = Append(steps, "post")
            /\ UNCHANGED <<pc, caught, outcome>>
       ELSE /\ caught' = err
            /\ outcome' = Complete(Throw(err))
            /\ pc' = "done"
            /\ UNCHANGED <<requests, steps>>
    /\ UNCHANGED <<env, ebayUrl, apiKey, itemId, rapidApiKey, response,
                   fmtOptions, fmtResult, inv, routeVars>>

\* the request fails in the transport and the rejection is caught:
\* lines 246-264
RequestFails(err) ==
    /\ pc = "awaiting"
    /\ caught' = err
    /\ outcome' = Complete(Throw(err))
    /\ pc' = "done"
    /\ UNCHANGED <<env, ebayUrl, apiKey, itemId, rapidApiKey, requests,
                   response, steps, fmtOptions, fmtResult, inv, routeVars>>

\* the caller has the result; the locals of the invocation are gone
Return ==
    /\ pc = "done"
    /\ pc' = "idle"
    /\ ebayUrl' = Undefined
    /\ apiKey' = Undefined
    /\ itemId' = Undefined
    /\ rapidApiKey' = Undefined
    /\ requests' = 0
    /\ response' = NoResponse
    /\ caught' = NoError
    /\ steps' = <<>>
    /\ outcome' = NotCompleted
    /\ UNCHANGED <<env, fmtOptions, fmtResult, inv, routeVars>>

Next ==
    \/ \E url \in Urls, key \in ApiKeys : Invoke(url, key)
    \/ \E resp \in Responses : Respond(resp)
    \/ \E err \in TransportErrors : RequestFails(err)
    \/ Return

Spec == Init /\ [][Next]_vars

----------------------------------------------------------------------------
(* formatEbayVariants called on its own *)

InitVariants ==
    /\ env = Undefined
    /\ pc = "idle"
    /\ ebayUrl = Undefined
    /\ apiKey = Undefined
    /\ itemId = Undefined
    /\ rapidApiKey = Undefined
    /\ requests = 0
    /\ response = NoResponse
    /\ caught = NoError
    /\ steps = <<>>
    /\ outcome = NotCompleted
    /\ fmtOptions \in OptionInputs
    /\ fmtResult = NotCompleted
    /\ inv = [i \in Invocations |-> IdleInvocation]
    /\ RoutesIdle

CallFormatEbayVariants ==
    /\ fmtResult = NotCompleted
    /\ fmtResult' = LET c == formatEbayVariants(fmtOptions)
                    IN  IF c.kind = "throw" THEN c ELSE Returned(c.value)
    /\ UNCHANGED <<env, pc, ebayUrl, apiKey, itemId, rapidApiKey, requests,
                   response, caught, steps, outcome, fmtOptions, inv, routeVars>>

NextVariants == CallFormatEbayVariants

SpecVariants == InitVariants /\ [][NextVariants]_vars

----------------------------------------------------------------------------
(* Several invocations of scrapeEbayProduct in flight together: each has   *)
(* its own arguments and locals, and they interleave at the await of line  *)
(* 123.  The environment's key is the one thing they all read.             *)

\* the item id invocation i reads after its await would be another
\* invocation's, were the local one slot for all invocations
ItemIdOfShared(i) ==
    IF \E j \in Invocations : j # i /\ inv[j].itemId.t = "string"
    THEN inv[CHOOSE j \in Invocations :
                 j # i /\ inv[j].itemId.t = "string"].itemId
    ELSE inv[i].itemId

\* const itemId, line 99: a local of the invocation, read again at line 216
ItemIdOf(i) == inv[i].itemId

InitConcurrent ==
    /\ env \in EnvKeys
    /\ pc = "idle"
    /\ ebayUrl = Undefined
    /\ apiKey = Undefined
    /\ itemId = Undefined
    /\ rapidApiKey = Undefined
    /\ requests = 0
    /\ response = NoResponse
    /\ caught = NoError
    /\ steps = <<>>
    /\ outcome = NotCompleted
    /\ fmtOptions = Undefined
    /\ fmtResult = NotCompleted
    /\ inv = [i \in Invocations |-> IdleInvocation]
    /\ RoutesIdle

\* invocation i is called and runs to its await or to its return
InvokeConcurrent(i, url, key) ==
    /\ inv[i].pc = "idle"
    /\ LET v == Validate(url, key, env)
       IN  inv' = [inv EXCEPT ![i] =
               IF v.end.kind = "throw"
               THEN [pc |-> "done", ebayUrl |-> Str(url), apiKey |-> key,
                     itemId |-> IF Len(v.steps) > 1 THEN extractItemId(url)
                                ELSE Undefined,
                     rapidApiKey |-> IF Len(v.steps) > 2 THEN Or(key, env)
                                     ELSE Undefined,
                     requests |-> 0, response |-> NoResponse,
                     caught |-> CaughtOf(v.end), steps |-> v.steps,
                     outcome |-> Complete(v.end)]
               ELSE [pc |-> "awaiting", ebayUrl |-> Str(url), apiKey |-> key,
                     itemId |-> v.end.value.itemId,
                     rapidApiKey |-> v.end.value.rapidApiKey,
                     requests |-> 1, response |-> NoResponse,
                     caught |-> NoError, steps |-> Append(v.steps, "post"),
                     outcome |-> NotCompleted]]
    /\ UNCHANGED <<env, pc, ebayUrl, apiKey, itemId, rapidApiKey, requests,
                   response, caught, steps, outcome, fmtOptions, fmtResult, routeVars>>

\* the request of invocation i is answered and it runs to its return
RespondConcurrent(i, resp) ==
    /\ inv[i].pc = "awaiting"
    /\ LET p == Process(resp, ItemIdOf(i), inv[i].ebayUrl.s)
       IN  inv' = [inv EXCEPT ![i].pc = "done",
                              ![i].response = resp,
                              ![i].steps = inv[i].steps \o p.steps,
                              ![i].caught = CaughtOf(p.end),
                              ![i].outcome = Complete(p.end)]
    /\ UNCHANGED <<env, pc, ebayUrl, apiKey, itemId, rapidApiKey, requests,
                   response, caught, steps, outcome, fmtOptions, fmtResult, routeVars>>

\* the request of invocation i fails in the transport
RequestFailsConcurrent(i, err) ==
    /\ inv[i].pc = "awaiting"
    /\ inv' = [inv EXCEPT ![i].pc = "done",
                          ![i].caught = err,
                          ![i].outcome = Complete(Throw(err))]
    /\ UNCHANGED <<env, pc, ebayUrl, apiKey, itemId, rapidApiKey, requests,
                   response, caught, steps, outcome, fmtOptions, fmtResult, routeVars>>

\* the caller of invocation i has its result
ReturnConcurrent(i) ==
    /\ inv[i].pc = "done"
    /\ inv' = [inv EXCEPT ![i] = IdleInvocation]
    /\ UNCHANGED <<env, pc, ebayUrl, apiKey, itemId, rapidApiKey, requests,
                   response, caught, steps, outcome, fmtOptions, fmtResult, routeVars>>

NextConcurrent ==
    \E i \in Invocations :
        \/ \E url \in ConcurrentUrls, key \in ConcurrentKeys :
               InvokeConcurrent(i, url, key)
        \/ \E resp \in ConcurrentResponses : RespondConcurrent(i, resp)
        \/ \E err \in ConcurrentErrors : RequestFailsConcurrent(i, err)
        \/ ReturnConcurrent(i)

SpecConcurrent == InitConcurrent /\ [][NextConcurrent]_vars

----------------------------------------------------------------------------
(* Properties *)

Done == pc = "done"

\* the invocation returned the failure made from the error it caught
FailedWith(code, message) ==
    /\ outcome.kind = "return"
    /\ outcome.value.success = FALSE
    /\ outcome.value.data = Undefined
    /\ caught.code = code
    /\ outcome.value.error = Str(<<message>>)

Succeeded == outcome.kind = "return" /\ outcome.value.success = TRUE

\* the URL and the credential pass the validation of lines 93-116
HasItemPath(url) == \E i \in 1..Len(url) : MatchesAt(url, i)
InputValid ==
    /\ includes(ebayUrl.s, EbayMarker)
    /\ HasItemPath(ebayUrl.s)
    /\ Truthy(apiKey) \/ Truthy(env)

\* the steps run after the request
AfterPost == SubSeq(steps, 5, Len(steps))

\* an envelope was received
GotEnvelope == Done /\ response.data.t = "object"
BothOk ==
    /\ response.data.original_status = Num(HTTP_OK)
    /\ response.data.pc_status = Num(HTTP_OK)

\* C1: every invocation that has completed returned a tagged result and let
\* no exception escape: success with a data record and no error, or failure
\* with an error string and no data.
C1_TaggedResult ==
    Done =>
        /\ outcome.kind = "return"
        /\ \/ /\ outcome.value.success = TRUE
              /\ outcome.value.data # Undefined
              /\ outcome.value.error = Undefined
           \/ /\ outcome.value.success = FALSE
              /\ outcome.value.error.t = "string"
              /\ outcome.value.data = Undefined

\* an invocation ended by a TypeError of the runtime, thrown while the
\* response was normalized
C1_Witness ==
    /\ Done
    /\ "normalize" \in {steps[i] : i \in 1..Len(steps)}
    /\ caught.isError /\ caught.code = "NONE" /\ ~caught.isAxiosError
    /\ outcome.kind = "return"

\* C2: a URL without the eBay domain marker, or without an /itm/ segment
\* (in any letter case) followed by digits, gives an INVALID_URL failure and
\* no outbound request.
C2_InvalidUrl ==
    (pc # "idle" /\ (~includes(ebayUrl.s, EbayMarker) \/ ~HasItemPath(ebayUrl.s)))
    => /\ Done
       /\ \/ FailedWith("INVALID_URL", MsgInvalidUrl)
          \/ FailedWith("INVALID_URL", MsgNoItemId)
       /\ requests = 0
       /\ "post" \notin {steps[i] : i \in 1..Len(steps)}

\* a URL with an item path and no domain marker was refused
C2_Witness ==
    /\ Done
    /\ HasItemPath(ebayUrl.s)
    /\ ~includes(ebayUrl.s, EbayMarker)
    /\ FailedWith("INVALID_URL", MsgInvalidUrl)
    /\ requests = 0

\* C3: for a valid eBay URL, with no credential passed and none in the
\* environment, the result is an API_KEY_MISSING failure and no outbound
\* request is made.
C3_KeyMissing ==
    (/\ pc # "idle"
     /\ includes(ebayUrl.s, EbayMarker) /\ HasItemPath(ebayUrl.s)
     /\ apiKey = Null /\ env = Undefined)
    => /\ Done
       /\ FailedWith("API_KEY_MISSING", MsgKeyMissing)
       /\ requests = 0
       /\ "post" \notin {steps[i] : i \in 1..Len(steps)}

C3_Witness ==
    /\ Done
    /\ includes(ebayUrl.s, EbayMarker) /\ HasItemPath(ebayUrl.s)
    /\ apiKey = Null /\ env = Undefined
    /\ FailedWith("API_KEY_MISSING", MsgKeyMissing)
    /\ requests = 0

\* C4: an invocation whose URL and credential pass the validation has
\* issued exactly one outbound request, and no invocation issues a second
\* one, whatever the response or the transport failure.
C4_ExactlyOneRequest ==
    /\ requests <= 1
    /\ (pc # "idle" /\ InputValid) => requests = 1
    /\ Len(SelectSeq(steps, LAMBDA st : st = "post")) = requests

\* the request failed in the transport and was not sent again
C4_Witness ==
    /\ Done
    /\ InputValid
    /\ caught.isAxiosError
    /\ requests = 1

\* C5: for every envelope received, the result is an API_ERROR failure
\* unless original_status and pc_status both equal 200, and a success is
\* returned only when both equal 200.
C5_StatusGate ==
    /\ GotEnvelope /\ ~BothOk
           => FailedWith("API_ERROR", MsgFetchFailed)
    /\ Done /\ Succeeded => response.data.t = "object" /\ BothOk

\* a complete body refused because one of the two statuses is not 200
C5_Witness ==
    /\ GotEnvelope
    /\ response.data.original_status = Num(HTTP_OK)
    /\ response.data.pc_status # Num(HTTP_OK)
    /\ response.data.body = GoodBody
    /\ FailedWith("API_ERROR", MsgFetchFailed)

\* what each of the three checks refuses, read off the envelope
StatusViolated == ~BothOk
EmptyViolated ==
    \/ response.data.body.t # "object"
    \/ \A k \in BodyKeys : response.data.body[k] = Undefined
EssentialViolated ==
    \/ response.data.body.t # "object"
    \/ ~Truthy(response.data.body.title)
    \/ response.data.body.price.t # "object"
    \/ ~Truthy(response.data.body.price.value)

\* C6: the checks run in the order status codes, empty body, essential
\* fields, and each is terminal: the failure reported is that of the first
\* check the response violates, and no later check nor the normalization
\* runs.
C6_CheckOrder ==
    GotEnvelope =>
        IF StatusViolated
        THEN /\ FailedWith("API_ERROR", MsgFetchFailed)
             /\ AfterPost = <<"checkStatus">>
        ELSE IF EmptyViolated
        THEN /\ FailedWith("API_ERROR", MsgNotFound)
             /\ AfterPost = <<"checkStatus", "checkEmpty">>
        ELSE IF EssentialViolated
        THEN /\ FailedWith("API_ERROR", MsgIncomplete)
             /\ AfterPost = <<"checkStatus", "checkEmpty", "checkEssential">>
        ELSE AfterPost = <<"checkStatus", "checkEmpty", "checkEssential",
                           "normalize">>

\* a response that violates all three checks
C6_Witness ==
    /\ GotEnvelope
    /\ StatusViolated /\ EmptyViolated /\ EssentialViolated
    /\ response.data.body = EmptyBody
    /\ FailedWith("API_ERROR", MsgFetchFailed)

\* both statuses 200, a title, and a price object without a value
PriceValueAbsent ==
    /\ GotEnvelope /\ BothOk
    /\ response.data.body.t = "object"
    /\ Truthy(response.data.body.title)
    /\ response.data.body.price.t = "object"
    /\ response.data.body.price.value = Undefined

C8_ZeroPricePasses ==
    (/\ GotEnvelope /\ BothOk
     /\ response.data.body.t = "object"
     /\ Truthy(response.data.body.title)
     /\ response.data.body.price.t = "object"
     /\ response.data.body.price.value = Num(0))
    => Succeeded /\ outcome.value.data.price = Num(0)

\* C9: in every success result the price is at least 0, whatever number
\* the body carries as price value.
C9_PriceNonNegative ==
    (/\ Done /\ Succeeded
     /\ response.data.body.price.value.t = "number")
    => /\ outcome.value.data.price.t = "number"
       /\ outcome.value.data.price.v >= 0

RECURSIVE ProductOfLengths(_)
\* the product of the lengths of the values lists of the options
ProductOfLengths(options) ==
    IF options = <<>> THEN 1
    ELSE Len(Head(options).values) * ProductOfLengths(Tail(options))

\* C10: formatEbayVariants returns as many variants as the product of the
\* lengths of the values lists of the options it returns, and none when it
\* returns no option.
C10_VariantCount ==
    fmtResult.kind = "return" =>
        Len(fmtResult.value.variants) =
            IF fmtResult.value.options = <<>> THEN 0
            ELSE ProductOfLengths(fmtResult.value.options)

\* two descriptors of the same name, two values each: four variants
C10_Witness ==
    /\ fmtResult.kind = "return"
    /\ Len(fmtResult.value.options) = 2
    /\ fmtResult.value.options[1].name = fmtResult.value.options[2].name
    /\ Len(fmtResult.value.options[1].values) = 2
    /\ Len(fmtResult.value.variants) = 4

----------------------------------------------------------------------------
(* Properties of formatEbayVariants *)

FmtReturned == fmtResult.kind = "return"

\* the names of the options of a list
NamesOf(options) == {options[i].name : i \in 1..Len(options)}

\* C11: the options map of every returned variant has exactly one entry per
\* returned option: each key names exactly one returned option, and the
\* keys are the names of all of them, one entry for each, also when
\* descriptors repeat an option name.
C11_OneEntryPerOption ==
    FmtReturned =>
        \A k \in 1..Len(fmtResult.value.variants) :
            LET entries == fmtResult.value.variants[k].options
                options == fmtResult.value.options
            IN  /\ DOMAIN entries = NamesOf(options)
                /\ \A key \in DOMAIN entries :
                       Cardinality({i \in 1..Len(options) :
                                        options[i].name = key}) = 1
                /\ Cardinality(DOMAIN entries) = Len(options)

\* the raw value strings of the descriptors passed in
InputValueStrings ==
    IF fmtOptions.t # "array" THEN {}
    ELSE UNION {
        UNION {
            {fmtOptions.a[d].entries[e].data.values.a[i].s :
                i \in {j \in 1..Len(fmtOptions.a[d].entries[e].data.values.a) :
                         fmtOptions.a[d].entries[e].data.values.a[j].t = "string"}} :
            e \in {x \in 1..Len(fmtOptions.a[d].entries) :
                     HasValuesList(fmtOptions.a[d].entries[x].data)}} :
        d \in {x \in 1..Len(fmtOptions.a) : fmtOptions.a[x].t = "object"}}

\* the value strings returned, in the options and in the variants' maps
ReturnedValueStrings ==
    UNION {{fmtResult.value.options[i].values[j] :
                j \in 1..Len(fmtResult.value.options[i].values)} :
           i \in 1..Len(fmtResult.value.options)}
    \cup UNION {{fmtResult.value.variants[k].options[key] :
                    key \in DOMAIN fmtResult.value.variants[k].options} :
                k \in 1..Len(fmtResult.value.variants)}

\* C12: no returned value, in an option or in a variant's map, contains
\* "out of stock" in any letter case, and every returned value is the
\* trimmed form of a value passed in.
C12_NoOutOfStock ==
    FmtReturned =>
        \A v \in ReturnedValueStrings :
            /\ ~includes(toLowerCase(v), OutOfStock)
            /\ \E x \in InputValueStrings : v = trim(x)

\* a capitalized "Out of Stock" and a padded value went in, the padded
\* value came out trimmed
C12_Witness ==
    /\ FmtReturned
    /\ ValOut \in InputValueStrings
    /\ ValPaddedS \in InputValueStrings
    /\ ValS \in ReturnedValueStrings
    /\ ValPaddedS \notin ReturnedValueStrings

\* C13: the values of every returned option are distinct, non-empty
\* strings, so that no two returned variants carry the same options map.
C13_DistinctValues ==
    FmtReturned =>
        /\ \A i \in 1..Len(fmtResult.value.options) :
               LET values == fmtResult.value.options[i].values
               IN  /\ \A j \in 1..Len(values) : values[j] # <<>>
                   /\ \A j, k \in 1..Len(values) :
                          j # k => values[j] # values[k]
        /\ \A j, k \in 1..Len(fmtResult.value.variants) :
               j # k => fmtResult.value.variants[j].options
                            # fmtResult.value.variants[k].options

\* in the nested iteration over the options, first option outermost, the
\* index of the value of option i in combination k (both counted from 1)
ValueIndex(options, i, k) ==
    (((k - 1) \div ProductOfLengths(SubSeq(options, i + 1, Len(options))))
        % Len(options[i].values)) + 1

\* the last option of a name: its value is the one the map keeps
LastNamed(options, name) ==
    CHOOSE i \in 1..Len(options) :
        /\ options[i].name = name
        /\ \A j \in 1..Len(options) : options[j].name = name => j <= i

\* C14: the variants are in the order of the nested iteration over the
\* returned options in their order and over each option's values in their
\* order, the last option varying fastest: the variant at position k is the
\* k-th combination.
C14_VariantOrder ==
    FmtReturned =>
        LET options == fmtResult.value.options
            variants == fmtResult.value.variants
        IN  \A k \in 1..Len(variants) :
                /\ DOMAIN variants[k].options = NamesOf(options)
                /\ \A name \in NamesOf(options) :
                       LET i == LastNamed(options, name)
                       IN  variants[k].options[name] =
                               options[i].values[ValueIndex(options, i, k)]

\* two options of two different values each: the second variant differs
\* from the first in the last option, the third in the first option
C14_Witness ==
    /\ FmtReturned
    /\ Len(fmtResult.value.options) = 2
    /\ fmtResult.value.options[1] = [name |-> "Color", values |-> <<ValM, ValS>>]
    /\ fmtResult.value.options[2] = [name |-> "Size", values |-> <<ValS, ValM>>]
    /\ fmtResult.value.variants[2].options = [Color |-> ValM, Size |-> ValM]
    /\ fmtResult.value.variants[3].options = [Color |-> ValS, Size |-> ValS]

----------------------------------------------------------------------------
(* Properties of the normalized product *)

HttpScheme == <<"h", "t", "t", "p", ":", "/", "/">>
HttpsScheme == <<"h", "t", "t", "p", "s", ":", "/", "/">>

\* C15: in every success result each entry of images is an absolute URL
\* that begins with the http or the https scheme, whether the list comes
\* from the body's images or from its mainImage.
C15_AbsoluteImages ==
    (Done /\ Succeeded) =>
        \A i \in 1..Len(outcome.value.data.images) :
            /\ outcome.value.data.images[i].t = "string"
            /\ \/ startsWith(outcome.value.data.images[i].s, HttpScheme)
               \/ startsWith(outcome.value.data.images[i].s, HttpsScheme)

----------------------------------------------------------------------------
(* Properties of invocations in flight together *)

\* what an invocation returns when it runs alone with these arguments,
\* this environment and this answer to its request
AloneOutcome(url, key, envKey, resp, err) ==
    LET v == Validate(url, key, envKey)
    IN  IF v.end.kind = "throw" THEN Complete(v.end)
        ELSE IF resp # NoResponse
        THEN Complete(Process(resp, extractItemId(url), url).end)
        ELSE Complete(Throw(err))

\* C17: whatever the interleaving, every invocation that has completed
\* returned what it returns when run alone with the same arguments and the
\* same answer, and no step of one invocation writes the environment or the
\* locals of another.
C17_Independent ==
    /\ [](\A i \in Invocations :
              inv[i].pc = "done" =>
                  inv[i].outcome =
                      AloneOutcome(inv[i].ebayUrl.s, inv[i].apiKey, env,
                                   inv[i].response, inv[i].caught))
    /\ [][/\ env' = env
          /\ \E i \in Invocations :
                 \A j \in Invocations \ {i} : inv'[j] = inv[j]]_vars

\* two invocations for different items were in flight together and both
\* succeeded, each with its own item id
C17_Witness ==
    /\ inv[1].pc = "done" /\ inv[2].pc = "done"
    /\ inv[1].ebayUrl = Str(UrlA) /\ inv[2].ebayUrl = Str(UrlB)
    /\ inv[1].outcome.kind = "return" /\ inv[1].outcome.value.success
    /\ inv[2].outcome.kind = "return" /\ inv[2].outcome.value.success
    /\ inv[1].outcome.value.data.itemId = Str(<<"1", "2">>)
    /\ inv[2].outcome.value.data.itemId = Str(<<"7">>)


----------------------------------------------------------------------------
(* Properties of the options formatEbayVariants keeps *)

RECURSIVE EntriesOf(_)
\* the entries of a list of descriptors, in order
EntriesOf(descriptors) ==
    IF descriptors = <<>> THEN <<>>
    ELSE Head(descriptors).entries \o EntriesOf(Tail(descriptors))

\* the entry has a values list with at least one value that does not say
\* "out of stock" in any letter case
HasAvailableValue(entry) ==
    /\ entry.data.t = "object"
    /\ entry.data.values.t = "array"
    /\ \E i \in 1..Len(entry.data.values.a) :
           ~includes(toLowerCase(entry.data.values.a[i].s), OutOfStock)

\* the entries of the input that have an available value
SurvivingEntries == SelectSeq(EntriesOf(fmtOptions.a), HasAvailableValue)

\* C18: the returned options are the input's entries that have a values
\* list with a value left after filtering, in order, each with at least one
\* value; when there is none, and for an absent or empty input, the result
\* is options = [] and variants = [].
C18_DropsEmptyOptions ==
    FmtReturned =>
        IF fmtOptions.t = "array"
        THEN /\ Len(fmtResult.value.options) = Len(SurvivingEntries)
             /\ \A i \in 1..Len(fmtResult.value.options) :
                    /\ fmtResult.value.options[i].name = SurvivingEntries[i].name
                    /\ Len(fmtResult.value.options[i].values) > 0
             /\ Len(SurvivingEntries) = 0 => fmtResult.value = NoVariants
        ELSE fmtResult.value = NoVariants

\* an option whose values all say "out of stock" was dropped next to one
\* that was kept
C18_Witness ==
    /\ FmtReturned
    /\ fmtOptions.t = "array"
    /\ Len(fmtOptions.a) = 2
    /\ EntriesOf(fmtOptions.a)[1].data = [t |-> "object", values |-> Arr(<<Str(ValOut)>>)]
    /\ Len(fmtResult.value.options) = 1
    /\ Len(fmtResult.value.variants) > 0


----------------------------------------------------------------------------
(* Properties of the variants and the availability of a success result *)

\* C19: every variant of a success result is available, has an empty item
\* id and carries the price of the product.
C19_VariantFields ==
    (Done /\ Succeeded) =>
        \A k \in 1..Len(outcome.value.data.variants) :
            /\ outcome.value.data.variants[k].available = TRUE
            /\ outcome.value.data.variants[k].itemId = Str(<<>>)
            /\ outcome.value.data.variants[k].price = outcome.value.data.price

\* a success result with several variants and a price that is not 0
C19_Witness ==
    /\ Done /\ Succeeded
    /\ Len(outcome.value.data.variants) > 1
    /\ outcome.value.data.price = Num(10)
    /\ outcome.value.data.variants[2].price = Num(10)

\* the availability the body asks for: its quantity when it carries one,
\* else its condition when it carries one, else "Available"
ExpectedAvailability(body) ==
    IF body.availableQuantity.t = "number"
    THEN Str(<<ToString(body.availableQuantity.v), " available">>)
    ELSE IF body.condition.t = "string" /\ body.condition.s # <<>>
    THEN body.condition
    ELSE Str(<<"Available">>)

\* C20: in every success result the availability is "<N> available" when
\* the body carries an available quantity N, 0 included, else the condition
\* of the body when it has one, else "Available".
C20_Availability ==
    (Done /\ Succeeded) =>
        outcome.value.data.availability = ExpectedAvailability(response.data.body)


----------------------------------------------------------------------------
(* Properties of a request that fails in the transport *)

\* the messages of the errors createScraperError makes
TypedMessages ==
    {MsgInvalidUrl, MsgNoItemId, MsgKeyMissing, MsgFetchFailed, MsgNotFound,
     MsgIncomplete}

\* the request of the invocation was rejected by the transport
TransportFailed == Done /\ caught.isAxiosError

\* C21: when the request fails in the transport, the invocation returns a
\* failure whose error string is made from the message the transport error
\* carries (the one of its response body when it has one, else its own),
\* the string is none of the typed messages, and no step of the response
\* validation or of the normalization has run.
C21_TransportFailure ==
    TransportFailed =>
        /\ outcome.kind = "return"
        /\ outcome.value.success = FALSE
        /\ outcome.value.data = Undefined
        /\ outcome.value.error.s =
               <<MsgAxiosPrefix>> \o
               (IF caught.responseMessage.t = "string"
                   /\ caught.responseMessage.s # <<>>
                THEN caught.responseMessage.s
                ELSE caught.message.s)
        /\ \A m \in TypedMessages : outcome.value.error # Str(<<m>>)
        /\ caught.code = "NONE"
        /\ requests = 1
        /\ response = NoResponse
        /\ AfterPost = <<>>

\* a rejected response with a message of its own was reported
C21_Witness ==
    /\ TransportFailed
    /\ caught.message = Str(<<"Request failed with status code 429">>)
    /\ caught.responseMessage = Str(<<"quota exceeded">>)
    /\ outcome.value.error = Str(<<MsgAxiosPrefix, "quota exceeded">>)


----------------------------------------------------------------------------
(* The loader of the settings route, app.settings.tsx lines 9-51: several  *)
(* requests are served together and interleave at each await.              *)

MaxLoaders == 2
Loaders == 1..MaxLoaders

Shops == {"a.myshopify.com", "b.myshopify.com"}

\* a loader that has not been requested
IdleLoader ==
    [pc |-> "idle", shop |-> "", settings |-> Null, outcome |-> NotCompleted]

\* the row create makes: the shop given, the other columns at their defaults
SettingsRow(shop) == [t |-> "object", shop |-> shop]

\* prisma.appSettings.findUnique({ where: { shop } }), lines 12-14
findUnique(table, shop) ==
    IF \E k \in 1..Len(table) : table[k].shop = shop
    THEN table[CHOOSE k \in 1..Len(table) : table[k].shop = shop]
    ELSE Null

\* the error of a create that meets a row with the same unique key: shop is
\* the key findUnique and upsert look rows up by (lines 12-14, 66-70)
UniqueConstraintFailed ==
    [isError |-> TRUE, isAxiosError |-> FALSE,
     message |-> Str(<<"Unique constraint failed on the fields: (shop)">>),
     code |-> "P2002", responseMessage |-> Undefined]

\* what admin.graphql answers with, as collectionsData
Edge(id, title) == [node |-> [id |-> id, title |-> title]]
CollectionsDatas ==
    {[data |-> Undefined],
     [data |-> [collections |-> [edges |-> <<>>]]],
     [data |-> [collections |-> [edges |-> <<Edge("gid1", "Sale")>>]]]}

\* lines 42-45: the collections of the answer, or none
collectionsOf(collectionsData) ==
    IF collectionsData.data = Undefined THEN <<>>
    ELSE [k \in 1..Len(collectionsData.data.collections.edges) |->
             [id |-> collectionsData.data.collections.edges[k].node.id,
              title |-> collectionsData.data.collections.edges[k].node.title]]

InitSettings ==
    /\ env = Undefined
    /\ pc = "idle"
    /\ ebayUrl = Undefined
    /\ apiKey = Undefined
    /\ itemId = Undefined
    /\ rapidApiKey = Undefined
    /\ requests = 0
    /\ response = NoResponse
    /\ caught = NoError
    /\ steps = <<>>
    /\ outcome = NotCompleted
    /\ fmtOptions = Undefined
    /\ fmtResult = NotCompleted
    /\ inv = <<>>
    /\ appSettings = <<>>
    /\ loaders = [i \in Loaders |-> IdleLoader]
    /\ importedProduct = {}
    /\ submitted = Null
    /\ products = <<>>
    /\ searchTerm = <<>>
    /\ filterStatus = "ALL"
    /\ selectedProducts = <<>>

\* line 10: the request is authenticated for a shop; findUnique is sent
LoaderAuthenticate(i, shop) ==
    /\ loaders[i].pc = "idle"
    /\ loaders' = [loaders EXCEPT ![i].pc = "findUnique", ![i].shop = shop]
    /\ UNCHANGED <<scraperVars, appSettings, importedProduct, submitted,
                   products, searchTerm, filterStatus, selectedProducts>>

\* lines 12-16: the database answers findUnique; without a row the loader
\* sends create, with one it asks for the collections
LoaderFindUnique(i) ==
    /\ loaders[i].pc = "findUnique"
    /\ LET settings == findUnique(appSettings, loaders[i].shop)
       IN  loaders' = [loaders EXCEPT
               ![i].settings = settings,
               ![i].pc = IF settings = Null THEN "create" ELSE "graphql"]
    /\ UNCHANGED <<scraperVars, appSettings, importedProduct, submitted,
                   products, searchTerm, filterStatus, selectedProducts>>

\* lines 17-19: the database runs create: it inserts the row, or rejects it
\* when the shop has a row by now, and the rejection leaves the loader
LoaderCreate(i) ==
    /\ loaders[i].pc = "create"
    /\ IF findUnique(appSettings, loaders[i].shop) # Null
       THEN /\ loaders' = [loaders EXCEPT
                   ![i].pc = "done",
                   ![i].outcome = Throw(UniqueConstraintFailed)]
            /\ UNCHANGED appSettings
       ELSE /\ appSettings' = Append(appSettings, SettingsRow(loaders[i].shop))
            /\ loaders' = [loaders EXCEPT
                   ![i].settings = SettingsRow(loaders[i].shop),
                   ![i].pc = "graphql"]
    /\ UNCHANGED <<scraperVars, importedProduct, submitted,
                   products, searchTerm, filterStatus, selectedProducts>>

\* lines 23-50: the collections are fetched and the loader returns
LoaderCollections(i, collectionsData) ==
    /\ loaders[i].pc = "graphql"
    /\ loaders' = [loaders EXCEPT
           ![i].pc = "done",
           ![i].outcome = Returned([settings |-> loaders[i].settings,
                                    collections |-> collectionsOf(collectionsData)])]
    /\ UNCHANGED <<scraperVars, appSettings, importedProduct, submitted,
                   products, searchTerm, filterStatus, selectedProducts>>

NextSettings ==
    \E i \in Loaders :
        \/ \E shop \in Shops : LoaderAuthenticate(i, shop)
        \/ LoaderFindUnique(i)
        \/ LoaderCreate(i)
        \/ \E collectionsData \in CollectionsDatas :
               LoaderCollections(i, collectionsData)

SpecSettings == InitSettings /\ [][NextSettings]_vars

----------------------------------------------------------------------------
(* Properties of the settings loader *)

\* the rows of the table that belong to a shop
RowsOf(shop) == SelectSeq(appSettings, LAMBDA row : row.shop = shop)

\* C22: whatever the interleaving of loaders that start on an empty table,
\* every loader that has completed returned the settings record of its
\* shop, and no shop has more than one row.
C22_FindOrCreateSafe ==
    /\ \A i \in Loaders :
           loaders[i].pc = "done" =>
               /\ loaders[i].outcome.kind = "return"
               /\ loaders[i].outcome.value.settings = SettingsRow(loaders[i].shop)
    /\ \A shop \in Shops : Len(RowsOf(shop)) <= 1


----------------------------------------------------------------------------
(* The selection of the import history page, part_000 lines 87-163 and     *)
(* 285-290: the page holds the products its loader gave it and the state   *)
(* of its search box, its status filter and its checkboxes.                *)

MaxProducts == 3

\* the rows of one shop, newest first as the loader orders them (line 26)
Product(id, title, ebayItemId, status) ==
    [id |-> id, title |-> title, ebayItemId |-> ebayItemId, status |-> status]
LoadedProducts ==
    <<Product("p1", <<"C", "a", "p">>, Str(<<"1", "2">>), "ACTIVE"),
      Product("p2", <<"c", "u", "p">>, Null, "DRAFT"),
      Product("p3", <<"M", "u", "g">>, Str(<<"7">>), "ACTIVE"),
      Product("p4", <<"m", "a", "p">>, Str(<<"1", "7">>), "DRAFT"),
      Product("p5", <<"P", "u", "g">>, Null, "ACTIVE")>>
ProductLists == {SubSeq(LoadedProducts, 1, n) : n \in 0..MaxProducts}

\* what the search box and the status filter can be set to
SearchTerms == {<<>>, <<"c">>, <<"U">>, <<"1">>, <<"z">>}
StatusFilters == {"ALL", "ACTIVE", "DRAFT"}

\* lines 109-111: the title or the item id holds the term, letter case aside
matchesSearch(product, term) ==
    \/ includes(toLowerCase(product.title), toLowerCase(term))
    \/ /\ product.ebayItemId.t = "string"
       /\ includes(toLowerCase(product.ebayItemId.s), toLowerCase(term))

\* lines 113-114
matchesStatus(product, status) == status = "ALL" \/ product.status = status

\* lines 108-118: the products shown.  The sort of lines 121-138 keeps the
\* loader's order under the initial sortBy "newest" and only ever permutes
\* the list.
filteredProducts ==
    SelectSeq(products,
              LAMBDA product : /\ matchesSearch(product, searchTerm)
                               /\ matchesStatus(product, filterStatus))

\* line 288: the checked attribute of the Select All checkbox
selectAllChecked ==
    /\ Len(selectedProducts) = Len(filteredProducts)
    /\ Len(filteredProducts) > 0

InitHistory ==
    /\ env = Undefined
    /\ pc = "idle"
    /\ ebayUrl = Undefined
    /\ apiKey = Undefined
    /\ itemId = Undefined
    /\ rapidApiKey = Undefined
    /\ requests = 0
    /\ response = NoResponse
    /\ caught = NoError
    /\ steps = <<>>
    /\ outcome = NotCompleted
    /\ fmtOptions = Undefined
    /\ fmtResult = NotCompleted
    /\ inv = <<>>
    /\ appSettings = <<>>
    /\ loaders = <<>>
    /\ importedProduct = {}
    /\ submitted = Null
    /\ products \in ProductLists
    /\ searchTerm = <<>>
    /\ filterStatus = "ALL"
    /\ selectedProducts = <<>>

\* line 301
setSearchTerm(term) ==
    /\ searchTerm' = term
    /\ UNCHANGED <<scraperVars, appSettings, loaders, importedProduct,
                   submitted, products, filterStatus, selectedProducts>>

\* line 313
setFilterStatus(status) ==
    /\ filterStatus' = status
    /\ UNCHANGED <<scraperVars, appSettings, loaders, importedProduct,
                   submitted, products, searchTerm, selectedProducts>>

\* lines 144-147
clearAllFilters ==
    /\ searchTerm' = <<>>
    /\ filterStatus' = "ALL"
    /\ UNCHANGED <<scraperVars, appSettings, loaders, importedProduct,
                   submitted, products, selectedProducts>>

\* lines 149-155, from the checkbox of a product shown (lines 409-413)
toggleSelectProduct(productId) ==
    /\ \E k \in 1..Len(filteredProducts) : filteredProducts[k].id = productId
    /\ selectedProducts' =
           IF \E k \in 1..Len(selectedProducts) : selectedProducts[k] = productId
           THEN SelectSeq(selectedProducts, LAMBDA id : id # productId)
           ELSE Append(selectedProducts, productId)
    /\ UNCHANGED <<scraperVars, appSettings, loaders, importedProduct,
                   submitted, products, searchTerm, filterStatus>>

\* lines 157-163
selectAll ==
    /\ selectedProducts' =
           IF Len(selectedProducts) = Len(filteredProducts)
           THEN <<>>
           ELSE [k \in 1..Len(filteredProducts) |-> filteredProducts[k].id]
    /\ UNCHANGED <<scraperVars, appSettings, loaders, importedProduct,
                   submitted, products, searchTerm, filterStatus>>

\* line 245: the Clear button of the bulk actions bar, shown while
\* something is selected (line 228)
clearSelection ==
    /\ Len(selectedProducts) > 0
    /\ selectedProducts' = <<>>
    /\ UNCHANGED <<scraperVars, appSettings, loaders, importedProduct,
                   submitted, products, searchTerm, filterStatus>>

NextHistory ==
    \/ \E term \in SearchTerms : setSearchTerm(term)
    \/ \E status \in StatusFilters : setFilterStatus(status)
    \/ clearAllFilters
    \/ \E productId \in {LoadedProducts[k].id : k \in 1..Len(LoadedProducts)} :
           toggleSelectProduct(productId)
    \/ selectAll
    \/ clearSelection

SpecHistory == InitHistory /\ [][NextHistory]_vars

----------------------------------------------------------------------------
(* Properties of the selection of the history page *)

\* the ids selected, and the ids of the products shown
SelectedIds == {selectedProducts[k] : k \in 1..Len(selectedProducts)}
FilteredIds == {filteredProducts[k].id : k \in 1..Len(filteredProducts)}

\* C23: whatever was searched, filtered, toggled and selected before,
\* selectAll with a shown product unselected leaves exactly the shown
\* products selected, and the Select All checkbox is checked only when every
\* shown product is selected.
C23_SelectAllExact ==
    /\ [][(selectAll /\ ~(FilteredIds \subseteq SelectedIds))
              => SelectedIds' = FilteredIds]_vars
    /\ [](selectAllChecked => FilteredIds \subseteq SelectedIds)


----------------------------------------------------------------------------
(* The action of the import history page, part_000 lines 66-85 *)

\* a row of the importedProduct table
ImportedRow(id, shop) == [id |-> id, shop |-> shop]
StoredProducts ==
    {ImportedRow("p1", "a.myshopify.com"), ImportedRow("p2", "a.myshopify.com"),
     ImportedRow("q1", "b.myshopify.com"), ImportedRow("q2", "b.myshopify.com")}

\* the action field of the form
ActionTypes == {Null, Str(<<"delete">>), Str(<<"archive">>)}

\* what JSON.parse makes of the productIds field: a list of ids, a value
\* that is no list, or nothing when the text is no JSON
NotJson == [t |-> "invalid"]
SubmittedIds ==
    {NotJson, Null, Str(<<"p1">>)}
    \cup {Arr(l) : l \in {<<>>, <<"p1">>, <<"q1">>, <<"p2", "q2">>,
                          <<"p1", "q1", "zz">>, <<"p1", "p2", "q1", "q2">>}}

MsgInvalidAction == "Invalid action"
SyntaxError ==
    [isError |-> TRUE, isAxiosError |-> FALSE,
     message |-> Str(<<"Unexpected token in JSON">>),
     code |-> "NONE", responseMessage |-> Undefined]
PrismaValidationError ==
    [isError |-> TRUE, isAxiosError |-> FALSE,
     message |-> Str(<<"Invalid value for argument in">>),
     code |-> "NONE", responseMessage |-> Undefined]

\* the ids of a list
IdsIn(productIds) == {productIds.a[k] : k \in 1..Len(productIds.a)}

\* a faulty delete: the rows are matched by id alone
deleteManyOfAnyShop(table, productIds, shop) ==
    {row \in table : row.id \notin IdsIn(productIds)}

\* lines 74-79: the rows left by deleteMany({ where: { id: { in:
\* productIds }, shop } })
deleteMany(table, productIds, shop) ==
    {row \in table : ~(row.id \in IdsIn(productIds) /\ row.shop = shop)}

InitDelete ==
    /\ env = Undefined
    /\ pc = "idle"
    /\ ebayUrl = Undefined
    /\ apiKey = Undefined
    /\ itemId = Undefined
    /\ rapidApiKey = Undefined
    /\ requests = 0
    /\ response = NoResponse
    /\ caught = NoError
    /\ steps = <<>>
    /\ outcome = NotCompleted
    /\ fmtOptions = Undefined
    /\ fmtResult = NotCompleted
    /\ inv = <<>>
    /\ appSettings = <<>>
    /\ loaders = <<>>
    /\ importedProduct = StoredProducts
    /\ submitted = Null
    /\ products = <<>>
    /\ searchTerm = <<>>
    /\ filterStatus = "ALL"
    /\ selectedProducts = <<>>

\* lines 66-85: one request to the action, authenticated for shop
HistoryAction(shop, actionType, productIds) ==
    /\ LET result ==
               IF actionType # Str(<<"delete">>)
               THEN Returned([error |-> Str(<<MsgInvalidAction>>)])
               ELSE IF productIds = NotJson THEN Throw(SyntaxError)
               ELSE IF productIds.t # "array"
               THEN Throw(PrismaValidationError)
               ELSE Returned([success |-> TRUE,
                              message |-> Str(<<ToString(Len(productIds.a)),
                                                " product(s) deleted">>)])
       IN  /\ submitted' = [t |-> "object", shop |-> shop,
                            actionType |-> actionType,
                            productIds |-> productIds, result |-> result]
           /\ importedProduct' =
                  IF result.kind = "return" /\ actionType = Str(<<"delete">>)
                  THEN deleteMany(importedProduct, productIds, shop)
                  ELSE importedProduct
    /\ UNCHANGED <<scraperVars, appSettings, loaders, products, searchTerm,
                   filterStatus, selectedProducts>>

NextDelete ==
    \E shop \in Shops, actionType \in ActionTypes, productIds \in SubmittedIds :
        HistoryAction(shop, actionType, productIds)

SpecDelete == InitDelete /\ [][NextDelete]_vars

----------------------------------------------------------------------------
(* Properties of the history action *)

\* C24: a request to the action removes no row of another shop than the
\* session's and adds none; a delete removes the rows of the session's shop
\* whose id was submitted and no other; a request whose action type is not
\* "delete" leaves every row.
C24_DeleteScoped ==
    [][/\ importedProduct' \subseteq importedProduct
       /\ \A row \in importedProduct \ importedProduct' :
              /\ row.shop = submitted'.shop
              /\ submitted'.actionType = Str(<<"delete">>)
              /\ submitted'.productIds.t = "array"
              /\ row.id \in IdsIn(submitted'.productIds)
       /\ \A row \in importedProduct :
              row.shop # submitted'.shop => row \in importedProduct'
       /\ submitted'.actionType # Str(<<"delete">>)
              => importedProduct' = importedProduct]_vars

\* shop a submitted ids of its own and of shop b: its row is gone, the rows
\* of shop b are all there
C24_Witness ==
    /\ submitted # Null
    /\ submitted.shop = "a.myshopify.com"
    /\ submitted.actionType = Str(<<"delete">>)
    /\ submitted.productIds = Arr(<<"p1", "q1", "zz">>)
    /\ submitted.result.kind = "return"
    /\ ImportedRow("p1", "a.myshopify.com") \notin importedProduct
    /\ ImportedRow("q1", "b.myshopify.com") \in importedProduct
    /\ ImportedRow("q2", "b.myshopify.com") \in importedProduct

====
